---- MODULE Spec2Model ----
(***************************************************************************)
(* Paperless-NGX MCP bridge: the metadata cache (CachedMetadata), the API  *)
(* client (PaperlessAPI) and the tool-call handler (McpOpenAPIBridge).     *)
(*                                                                         *)
(* JavaScript values are records [t, s, n, l]: t is the type tag, s the    *)
(* characters of a string, n a number, l the elements of an array.         *)
(* Strings are sequences of one-character strings so that trim() and       *)
(* toLowerCase() are computed, not assumed.                                *)
(***************************************************************************)
EXTENDS Integers, Sequences, FiniteSets, TLC

VARIABLES
    configOk,     \* PAPERLESS_BASE_URL and PAPERLESS_TOKEN are both set
    loggerLevel,  \* process.env.LOGGER_LEVEL
    probe,        \* the last direct call of a cache or logger method
    paperlessConnected, \* the local of start() holding the connection test's result
    listings,     \* per kind, the listing responses a load has received
    proc,         \* position of the bootstrap (index.ts / McpOpenAPIBridge.start)
    exitCode,     \* process exit status, -1 while the process runs
    loads,        \* the three load promises of initialize(): kind -> status
    cache,        \* CachedMetadata maps: [tags, correspondents, documentTypes]
    lastUpdated,  \* CachedMetadata.lastUpdated
    remote,       \* the Paperless service's entities per kind, in listing order
    creates,      \* number of entities created on the remote so far
    calls         \* the tool calls: call id -> call record

vars ==
    <<configOk, loggerLevel, probe, paperlessConnected, listings, proc, exitCode, loads, cache, lastUpdated, remote, creates, calls>>

----------------------------------------------------------------------------
(* Bounds *)

\* Entities the session may create on the remote service.
MaxCreates == 2

----------------------------------------------------------------------------
(* JavaScript values *)

Undefined == [t |-> "undefined", s |-> <<>>, n |-> 0, l |-> <<>>]
Str(chars) == [t |-> "string", s |-> chars, n |-> 0, l |-> <<>>]
Num(k) == [t |-> "number", s |-> <<>>, n |-> k, l |-> <<>>]
Arr(elems) == [t |-> "array", s |-> <<>>, n |-> 0, l |-> elems]
Null == [t |-> "null", s |-> <<>>, n |-> 0, l |-> <<>>]
NaN == [t |-> "NaN", s |-> <<>>, n |-> 0, l |-> <<>>]
\* An object with a name and an id (a tag, correspondent or document type).
Obj(e) == [t |-> "object", s |-> e.name, n |-> e.id, l |-> <<>>]

\* JavaScript truthiness, as used by `if (x)`.
Truthy(v) ==
    CASE v.t \in {"undefined", "null", "NaN"} -> FALSE
      [] v.t = "string" -> v.s # <<>>
      [] v.t = "number" -> v.n # 0
      [] OTHER -> TRUE

\* String.prototype.toLowerCase on one character.
LowerChar(ch) ==
    CASE ch = "A" -> "a"
      [] ch = "B" -> "b"
      [] ch = "C" -> "c"
      [] OTHER -> ch

toLowerCase(chars) == [i \in 1..Len(chars) |-> LowerChar(chars[i])]

IsSpace(ch) == ch = " "

RECURSIVE TrimStart(_)
TrimStart(chars) ==
    IF chars # <<>> /\ IsSpace(Head(chars)) THEN TrimStart(Tail(chars)) ELSE chars

RECURSIVE TrimEnd(_)
TrimEnd(chars) ==
    IF chars # <<>> /\ IsSpace(chars[Len(chars)])
    THEN TrimEnd(SubSeq(chars, 1, Len(chars) - 1))
    ELSE chars

\* String.prototype.trim
trim(chars) == TrimEnd(TrimStart(chars))

----------------------------------------------------------------------------
(* CachedMetadata: a Map<number, entity> is the sequence of its entries in *)
(* insertion order, with one entry per key.                                *)

Kinds == {"tags", "correspondents", "documentTypes"}

Entity(id, name) == [id |-> id, name |-> name]

MapKeys(m) == {m[i].id : i \in 1..Len(m)}

\* Map.prototype.set: a new key is appended, an existing key keeps its place.
MapSet(m, e) ==
    IF e.id \in MapKeys(m)
    THEN [i \in 1..Len(m) |-> IF m[i].id = e.id THEN e ELSE m[i]]
    ELSE Append(m, e)

\* results.forEach(e => { if (e.id) map.set(e.id, e) }) on a cleared map
RECURSIVE SetAll(_, _)
SetAll(m, results) ==
    IF results = <<>> THEN m
    ELSE SetAll(IF Truthy(Num(Head(results).id)) THEN MapSet(m, Head(results)) ELSE m,
                Tail(results))

\* A load that yields before it has set the last entry of the listing, so
\* that the map is seen with that entry missing.
LoadInto_Partial(m, results) ==
    IF Len(results) > 0 THEN SetAll(<<>>, SubSeq(results, 1, Len(results) - 1)) ELSE m

\* The body of loadTags / loadCorrespondents / loadDocumentTypes after the
\* listing arrived: an empty listing leaves the map alone.
LoadInto(m, results) ==
    IF Len(results) > 0 THEN SetAll(<<>>, results) ELSE m

\* String.prototype.includes
Includes(chars, part) ==
    \E i \in 0..(Len(chars) - Len(part)) : SubSeq(chars, i + 1, i + Len(part)) = part

\* The name lookup with includes() in place of ===.
RECURSIVE IDByName_Includes(_, _)
IDByName_Includes(m, name) ==
    IF m = <<>> THEN Undefined
    ELSE IF Includes(toLowerCase(trim(Head(m).name)), toLowerCase(trim(name)))
         THEN Num(Head(m).id)
         ELSE IDByName_Includes(Tail(m), name)

\* The name lookup that goes on after a match, so that the last entry with
\* the name wins.
RECURSIVE IDByName_LastMatch(_, _)
IDByName_LastMatch(m, name) ==
    IF m = <<>> THEN Undefined
    ELSE IF IDByName_LastMatch(Tail(m), name) # Undefined
         THEN IDByName_LastMatch(Tail(m), name)
         ELSE IF toLowerCase(trim(Head(m).name)) = toLowerCase(trim(name))
              THEN Num(Head(m).id)
              ELSE Undefined

\* getTagIDByName / getCorrespondentIDByName / getDocumentTypeIDByName on one map
RECURSIVE IDByName(_, _)
IDByName(m, name) ==
    IF m = <<>> THEN Undefined
    ELSE IF toLowerCase(trim(Head(m).name)) = toLowerCase(trim(name))
         THEN Num(Head(m).id)
         ELSE IDByName(Tail(m), name)

getTagIDByName(c, name) == IDByName(c.tags, name)

\* Map.prototype.get with a key of any type: the entity under the key, or
\* undefined.
MapGet(m, key) ==
    IF key.t = "number" /\ key.n \in MapKeys(m)
    THEN Obj(m[CHOOSE i \in 1..Len(m) : m[i].id = key.n])
    ELSE Undefined

getCorrespondentById(c, id) == MapGet(c.correspondents, id)
getDocumentTypeById(c, id) == MapGet(c.documentTypes, id)

\* ids.map(id => this.tags.get(id)).filter(tag => tag !== undefined)
RECURSIVE GetEach(_, _)
GetEach(m, ids) ==
    IF ids = <<>> THEN <<>>
    ELSE (IF MapGet(m, Head(ids)) # Undefined THEN <<MapGet(m, Head(ids))>> ELSE <<>>)
         \o GetEach(m, Tail(ids))

\* getTagsByIds with the map's entries in map order, whatever the order of
\* the IDs asked for.
getTagsByIds_MapOrder(c, ids) ==
    IF ~Truthy(ids) \/ Len(ids.l) = 0 THEN Undefined
    ELSE Arr(GetEach(c.tags, [i \in 1..Len(c.tags) |->
                                 IF \E j \in 1..Len(ids.l) : ids.l[j] = Num(c.tags[i].id)
                                 THEN Num(c.tags[i].id) ELSE Undefined]))

getTagsByIds(c, ids) ==
    IF ~Truthy(ids) \/ Len(ids.l) = 0 THEN Undefined
    ELSE Arr(GetEach(c.tags, ids.l))
getCorrespondentIDByName(c, name) == IDByName(c.correspondents, name)
getDocumentTypeIDByName(c, name) == IDByName(c.documentTypes, name)

----------------------------------------------------------------------------
(* Tool arguments: request.params.arguments.  isObject is FALSE when the   *)
(* request carries no argument object; an absent key holds Undefined.      *)

NoArgs ==
    [isObject |-> TRUE,
     id |-> Undefined, content__icontains |-> Undefined, title |-> Undefined,
     tag |-> Undefined, correspondent |-> Undefined,
     created__date__gte |-> Undefined, created__date__lte |-> Undefined,
     document_type |-> Undefined, limit |-> Undefined,
     documentIds |-> Undefined, method |-> Undefined,
     add_tags |-> Undefined, remove_tags |-> Undefined,
     name |-> Undefined, color |-> Undefined]

MissingArgs == [NoArgs EXCEPT !.isObject = FALSE]

\* zod primitives
zString(v) == v.t = "string"
zNumber(v) == v.t = "number"
zIntMin1(v) == v.t = "number" /\ v.n >= 1
zOptional(ok, v) == v.t = "undefined" \/ ok
zArrayOfString(v) == v.t = "array" /\ \A i \in 1..Len(v.l) : zString(v.l[i])
zArrayOfIntMin1(v) == v.t = "array" /\ \A i \in 1..Len(v.l) : zIntMin1(v.l[i])

HexChars == {"0", "1", "2", "3", "4", "5", "6", "7", "8", "9",
             "a", "b", "c", "d", "e", "f", "A", "B", "C", "D", "E", "F"}

\* The enum's words are kept whole: a method is the string of one "character".
MethodEnum == {<<"set_correspondent">>, <<"set_document_type">>,
               <<"modify_tags">>, <<"delete">>}

\* z.string().max(7).regex(/^#(?:[0-9a-fA-F]{3}){1,2}$/)
zColor(v) ==
    /\ zString(v)
    /\ Len(v.s) <= 7
    /\ Len(v.s) \in {4, 7}
    /\ v.s[1] = "#"
    /\ \A i \in 2..Len(v.s) : v.s[i] \in HexChars

\* getDocumentSchema without its refine: the object schema alone.
getDocumentSchemaIssues_NoRefine(a) ==
    IF ~a.isObject THEN {"arguments"}
    ELSE {f \in {"id"} : ~zOptional(zIntMin1(a.id), a.id)}
         \cup {f \in {"content__icontains", "title", "tag", "correspondent",
                      "created__date__gte", "created__date__lte", "document_type"} :
                 \E v \in {a.content__icontains, a.title, a.tag, a.correspondent,
                           a.created__date__gte, a.created__date__lte,
                           a.document_type} : ~zOptional(zString(v), v)}
         \cup {f \in {"limit"} : ~zOptional(zNumber(a.limit), a.limit)}

\* The keys of getDocumentSchema that violate their type, "refine" for the
\* cross-field rule (zod runs it only when the object itself parsed).
getDocumentSchemaIssues(a) ==
    LET typed ==
            {f \in {"id"} : ~zOptional(zIntMin1(a.id), a.id)}
            \cup {f \in {"content__icontains"} :
                    ~zOptional(zString(a.content__icontains), a.content__icontains)}
            \cup {f \in {"title"} : ~zOptional(zString(a.title), a.title)}
            \cup {f \in {"tag"} : ~zOptional(zString(a.tag), a.tag)}
            \cup {f \in {"correspondent"} :
                    ~zOptional(zString(a.correspondent), a.correspondent)}
            \cup {f \in {"created__date__gte"} :
                    ~zOptional(zString(a.created__date__gte), a.created__date__gte)}
            \cup {f \in {"created__date__lte"} :
                    ~zOptional(zString(a.created__date__lte), a.created__date__lte)}
            \cup {f \in {"document_type"} :
                    ~zOptional(zString(a.document_type), a.document_type)}
            \cup {f \in {"limit"} : ~zOptional(zNumber(a.limit), a.limit)}
        hasFilter ==
            \/ a.id # Undefined
            \/ a.content__icontains # Undefined
            \/ a.title # Undefined
            \/ a.tag # Undefined
            \/ a.correspondent # Undefined
            \/ a.created__date__gte # Undefined
            \/ a.created__date__lte # Undefined
            \/ a.document_type # Undefined
    IN  IF ~a.isObject THEN {"arguments"}
        ELSE IF typed # {} THEN typed
        ELSE IF ~hasFilter THEN {"refine"}
        ELSE {}

bulkEditSchemaIssues(a) ==
    IF ~a.isObject THEN {"arguments"}
    ELSE {f \in {"documentIds"} : ~zArrayOfIntMin1(a.documentIds)}
         \cup {f \in {"method"} : ~(zString(a.method) /\ a.method.s \in MethodEnum)}
         \cup {f \in {"correspondent"} :
                 ~zOptional(zString(a.correspondent), a.correspondent)}
         \cup {f \in {"document_type"} :
                 ~zOptional(zString(a.document_type), a.document_type)}
         \cup {f \in {"add_tags"} : ~zOptional(zArrayOfString(a.add_tags), a.add_tags)}
         \cup {f \in {"remove_tags"} :
                 ~zOptional(zArrayOfString(a.remove_tags), a.remove_tags)}

createCorrespondentSchemaIssues(a) ==
    IF ~a.isObject THEN {"arguments"}
    ELSE {f \in {"name"} : ~zString(a.name)}

createDocumentTypeSchemaIssues(a) ==
    IF ~a.isObject THEN {"arguments"}
    ELSE {f \in {"name"} : ~zString(a.name)}

createTagSchemaIssues(a) ==
    IF ~a.isObject THEN {"arguments"}
    ELSE {f \in {"name"} : ~zString(a.name)}
         \cup {f \in {"color"} : ~zOptional(zColor(a.color), a.color)}

----------------------------------------------------------------------------
(* Results of a tool call.  A text is a template: prefix, then the         *)
(* interpolated name, entity id, listed entities and error message.        *)

Text(prefix, name, id, items, message) ==
    [prefix |-> prefix, name |-> name, id |-> id, items |-> items, message |-> message]

NoText == Text("", <<>>, 0, <<>>, "")

\* { content: [{ type: "text", text }] } and { isError: true, content: [...] }
SuccessEnvelope(text) == [shape |-> "envelope", isError |-> FALSE, code |-> 0, text |-> text]
ErrorEnvelope(text) == [shape |-> "envelope", isError |-> TRUE, code |-> 0, text |-> text]

NoResult == [shape |-> "none", isError |-> FALSE, code |-> 0, text |-> NoText]

\* JSON-RPC "invalid params", the code of the default case's error object
InvalidParamsCode == -32602

\* { jsonrpc: "2.0", error: { code: -32602, message: "Unknown tool: invalid_tool_name" } }
UnknownToolResult ==
    [shape |-> "jsonrpc_error", isError |-> FALSE, code |-> InvalidParamsCode,
     text |-> Text("", <<>>, 0, <<>>, "Unknown tool: invalid_tool_name")]

NoError == [name |-> "", issues |-> {}, message |-> ""]
ZodError(issues) == [name |-> "ZodError", issues |-> issues, message |-> "Invalid input"]

\* How a request to the remote service can end.
RemoteOutcomes == {"ok", "network_error", "status_500"}

\* error.message of the AxiosError of a failed request
AxiosMessage(outcome) ==
    IF outcome = "network_error" THEN "Network Error"
    ELSE "Request failed with status code 500"

AxiosError(outcome) == [name |-> "AxiosError", issues |-> {}, message |-> AxiosMessage(outcome)]

Request(verb, url, body) == [verb |-> verb, url |-> url, body |-> body, status |-> "pending"]

ListUrl(kind) ==
    CASE kind = "tags" -> "/api/tags/"
      [] kind = "correspondents" -> "/api/correspondents/"
      [] OTHER -> "/api/document_types/"

----------------------------------------------------------------------------
(* PaperlessAPI *)

\* getDocumentAllParams: the query parameters of GET /api/documents/
DefaultLimit == 10

\* The query parameters with `limit || 10` in place of the destructuring
\* default.
getDocumentAllParams_OrDefault(a) ==
    LET opt(v) == IF Truthy(v) THEN v ELSE Undefined
    IN  [page_size |-> IF Truthy(a.limit) THEN a.limit ELSE Num(DefaultLimit),
         id |-> opt(a.id),
         content__icontains |-> opt(a.content__icontains),
         title__icontains |-> opt(a.title),
         tags__name__icontains |-> opt(a.tag),
         correspondent__name__icontains |-> opt(a.correspondent),
         created__date__gte |-> opt(a.created__date__gte),
         created__date__lte |-> opt(a.created__date__lte),
         document_type__name__icontains |-> opt(a.document_type)]

\* The query parameters with the tag name resolved against the cache, as the
\* write path does: an unknown tag name is dropped.
getDocumentAllParams_ResolveTag(a) ==
    LET opt(v) == IF Truthy(v) THEN v ELSE Undefined
    IN  [page_size |-> IF a.limit = Undefined THEN Num(DefaultLimit) ELSE a.limit,
         id |-> opt(a.id),
         content__icontains |-> opt(a.content__icontains),
         title__icontains |-> opt(a.title),
         tags__name__icontains |->
             IF Truthy(a.tag) /\ Truthy(getTagIDByName(cache, a.tag.s))
             THEN a.tag ELSE Undefined,
         correspondent__name__icontains |-> opt(a.correspondent),
         created__date__gte |-> opt(a.created__date__gte),
         created__date__lte |-> opt(a.created__date__lte),
         document_type__name__icontains |-> opt(a.document_type)]

\* The query parameters with `!== undefined` tests in place of the
\* truthiness tests: an empty string is sent too.
getDocumentAllParams_SendEmpty(a) ==
    [page_size |-> IF a.limit = Undefined THEN Num(DefaultLimit) ELSE a.limit,
     id |-> a.id,
     content__icontains |-> a.content__icontains,
     title__icontains |-> a.title,
     tags__name__icontains |-> a.tag,
     correspondent__name__icontains |-> a.correspondent,
     created__date__gte |-> a.created__date__gte,
     created__date__lte |-> a.created__date__lte,
     document_type__name__icontains |-> a.document_type]

getDocumentAllParams(a) ==
    LET opt(v) == IF Truthy(v) THEN v ELSE Undefined
    IN  [page_size |-> IF a.limit = Undefined THEN Num(DefaultLimit) ELSE a.limit,
         id |-> opt(a.id),
         content__icontains |-> opt(a.content__icontains),
         title__icontains |-> opt(a.title),
         tags__name__icontains |-> opt(a.tag),
         correspondent__name__icontains |-> opt(a.correspondent),
         created__date__gte |-> opt(a.created__date__gte),
         created__date__lte |-> opt(a.created__date__lte),
         document_type__name__icontains |-> opt(a.document_type)]

NoParameters ==
    [correspondent |-> Undefined, document_type |-> Undefined,
     add_tags |-> Undefined, remove_tags |-> Undefined]

\* The loop pushing every lookup result, undefined included.
RECURSIVE TagIds_KeepUnresolved(_, _)
TagIds_KeepUnresolved(c, names) ==
    IF names = <<>> THEN <<>>
    ELSE <<getTagIDByName(c, Head(names).s)>> \o TagIds_KeepUnresolved(c, Tail(names))

\* for (const tag of names) { result = getTagIDByName(tag); if (result !== undefined) ids.push(result) }
RECURSIVE TagIds(_, _)
TagIds(c, names) ==
    IF names = <<>> THEN <<>>
    ELSE LET result == getTagIDByName(c, Head(names).s)
         IN  (IF result # Undefined THEN <<result>> ELSE <<>>) \o TagIds(c, Tail(names))

\* bulkEditDocuments without the resolution of the name: whatever name was
\* given is posted.
bulkEditDocuments_PostUnresolved(a, c) ==
    [early |-> FALSE, result |-> NoResult,
     body |-> [documents |-> a.documentIds, method |-> a.method,
               parameters |-> [NoParameters EXCEPT
                                  !.correspondent = a.correspondent,
                                  !.document_type = a.document_type]]]

\* bulkEditDocuments up to its axios.post: either an early return (early is
\* TRUE and result the envelope returned) or the request body to post.
bulkEditDocuments(a, c) ==
    LET method == a.method.s
        body(parameters) ==
            [documents |-> a.documentIds, method |-> a.method, parameters |-> parameters]
        post(parameters) ==
            [early |-> FALSE, result |-> NoResult, body |-> body(parameters)]
        stop(text) ==
            [early |-> TRUE, result |-> ErrorEnvelope(text), body |-> body(NoParameters)]
    IN  CASE method = <<"set_correspondent">> ->
               IF a.correspondent # Undefined
               THEN IF Truthy(getCorrespondentIDByName(c, a.correspondent.s))
                    THEN post([NoParameters EXCEPT !.correspondent = a.correspondent])
                    ELSE stop(Text("Correspondent \"", a.correspondent.s, 0, <<>>,
                                   "\" not found."))
               ELSE post(NoParameters)
          [] method = <<"set_document_type">> ->
               IF a.document_type # Undefined
               THEN IF Truthy(getDocumentTypeIDByName(c, a.document_type.s))
                    THEN post([NoParameters EXCEPT !.document_type = a.document_type])
                    ELSE stop(Text("Document Type \"", a.document_type.s, 0, <<>>,
                                   "\" not found."))
               ELSE post(NoParameters)
          [] method = <<"modify_tags">> ->
               post([NoParameters EXCEPT
                       !.add_tags = IF Truthy(a.add_tags)
                                    THEN Arr(TagIds(c, a.add_tags.l)) ELSE Arr(<<>>),
                       !.remove_tags = IF Truthy(a.remove_tags)
                                       THEN Arr(TagIds(c, a.remove_tags.l)) ELSE Arr(<<>>)])
          [] OTHER -> post(NoParameters)

\* The request bodies of createCorrespondent / createDocumentType / createTag
createCorrespondentBody(a) == [name |-> a.name, color |-> Undefined]
createDocumentTypeBody(a) == [name |-> a.name, color |-> Undefined]
createTagBody(a) == [name |-> a.name, color |-> IF Truthy(a.color) THEN a.color ELSE Undefined]

----------------------------------------------------------------------------
(* The tools and the arguments the model's client sends *)

ListTools == {"list_tags", "list_correspondents", "list_document_types"}
CreateTools == {"create_correspondent", "create_document_type", "create_tag"}
DeclaredTools == ListTools \cup CreateTools \cup {"get_documents", "edit_documents"}
UnknownTools == {"invalid_tool_name", "delete_documents"}

\* The metadata kind a list_* or create_* tool works on.
KindOf(tool) ==
    CASE tool \in {"list_tags", "create_tag"} -> "tags"
      [] tool \in {"list_correspondents", "create_correspondent"} -> "correspondents"
      [] OTHER -> "documentTypes"

\* Names: "A" is on the remote from the start, "a" and "b" can be created,
\* " a " needs trimming, "c" never exists.
NameA == <<"A">>
NameLowerA == <<"a">>
NamePaddedA == <<" ", "a", " ">>
NameB == <<"b">>
NameC == <<"c">>

CreateNames == {NameLowerA, NameB}
LookupNames == {NameA, NamePaddedA, NameB, NameC}

ColorRed == <<"#", "f", "0", "0">>
ColorWord == <<"r", "e", "d">>

CreateArgs(tool) ==
    {[NoArgs EXCEPT !.name = Str(n)] : n \in CreateNames}
    \cup {NoArgs, MissingArgs, [NoArgs EXCEPT !.name = Num(1)]}
    \cup (IF tool = "create_tag"
          THEN {[NoArgs EXCEPT !.name = Str(NameB), !.color = Str(ColorRed)],
                [NoArgs EXCEPT !.name = Str(NameB), !.color = Str(ColorWord)]}
          ELSE {})

GetDocumentArgs ==
    {NoArgs, MissingArgs,
     [NoArgs EXCEPT !.limit = Num(5)],
     [NoArgs EXCEPT !.id = Num(0)],
     [NoArgs EXCEPT !.id = Num(1), !.limit = Num(5)],
     [NoArgs EXCEPT !.tag = Str(NameA)],
     [NoArgs EXCEPT !.correspondent = Str(NameC), !.title = Str(NamePaddedA)],
     [NoArgs EXCEPT !.document_type = Str(<<>>)],
     [NoArgs EXCEPT !.title = Num(1)]}

EditBase(method) ==
    [NoArgs EXCEPT !.documentIds = Arr(<<Num(1)>>), !.method = Str(<<method>>)]

EditArgs ==
    {[EditBase("set_correspondent") EXCEPT !.correspondent = Str(n)] : n \in LookupNames}
    \cup {[EditBase("set_document_type") EXCEPT !.document_type = Str(n)] :
            n \in LookupNames}
    \cup {EditBase("set_correspondent"), EditBase("set_document_type"),
          EditBase("modify_tags"), EditBase("delete"),
          [EditBase("set_correspondent") EXCEPT !.document_type = Str(NameA)],
          [EditBase("modify_tags") EXCEPT !.add_tags = Arr(<<Str(NameA)>>),
                                          !.remove_tags = Arr(<<Str(NameC)>>)],
          [EditBase("modify_tags") EXCEPT
              !.add_tags = Arr(<<Str(NameB), Str(NamePaddedA)>>)],
          [EditBase("modify_tags") EXCEPT !.add_tags = Arr(<<>>),
                                          !.remove_tags = Arr(<<Str(NameC)>>)],
          EditBase("merge"),
          [EditBase("delete") EXCEPT !.documentIds = Undefined],
          [EditBase("delete") EXCEPT !.documentIds = Arr(<<Num(0)>>)],
          [EditBase("set_correspondent") EXCEPT !.correspondent = Num(1)],
          [EditBase("modify_tags") EXCEPT !.add_tags = Str(NameA)],
          MissingArgs}

ArgsOf(tool) ==
    CASE tool = "get_documents" -> GetDocumentArgs
      [] tool = "edit_documents" -> EditArgs
      [] tool \in CreateTools -> CreateArgs(tool)
      [] OTHER -> {NoArgs, MissingArgs}

----------------------------------------------------------------------------
(* State *)

CallIds == {1, 2}

IdleCall ==
    [pc |-> "idle", tool |-> "", args |-> NoArgs, validated |-> FALSE,
     outcome |-> "none", result |-> NoResult, error |-> NoError, reqs |-> <<>>,
     served |-> FALSE, listing |-> <<>>]

\* No direct call has been made.  A direct call records the method, its
\* input (kind, argument, doc), and how it ended: the value or text returned,
\* whether it threw, whether a log line was written.
NoDoc == [tags |-> Undefined, correspondent |-> Undefined, document_type |-> Undefined]
NoInput == [kind |-> "", arg |-> Undefined, doc |-> NoDoc]
NoDocumentText == [tags |-> <<>>, correspondent |-> <<>>, documentType |-> <<>>]
NoOutput == [value |-> Undefined, text |-> NoDocumentText, threw |-> FALSE, written |-> FALSE]
NoProbe == [op |-> "none", input |-> NoInput, output |-> NoOutput]

EmptyCache == [tags |-> <<>>, correspondents |-> <<>>, documentTypes |-> <<>>]

\* What the Paperless service holds when the bridge starts.
InitRemotes ==
    {EmptyCache,
     [tags |-> <<Entity(1, NameA)>>, correspondents |-> <<Entity(1, NameA)>>,
      documentTypes |-> <<>>],
     [tags |-> <<Entity(1, NameA)>>, correspondents |-> <<Entity(1, NameA)>>,
      documentTypes |-> <<Entity(1, NameA)>>]}

Init ==
    /\ configOk \in BOOLEAN
    /\ loggerLevel = Undefined
    /\ probe = NoProbe
    /\ paperlessConnected = FALSE
    /\ listings = [k \in Kinds |-> {}]
    /\ proc = "start"
    /\ exitCode = -1
    /\ loads = [k \in Kinds |-> "idle"]
    /\ cache = EmptyCache
    /\ lastUpdated = "null"
    /\ remote \in InitRemotes
    /\ creates = 0
    /\ calls = [c \in CallIds |-> IdleCall]

----------------------------------------------------------------------------
(* Bootstrap: index.ts, McpOpenAPIBridge.start, CachedMetadata.initialize *)

\* new McpOpenAPIBridge(): the PaperlessAPI constructor throws without its
\* configuration, which ends the process; otherwise start() sends the
\* connection test.
Construct ==
    /\ proc = "start"
    /\ IF configOk
       THEN proc' = "testing" /\ exitCode' = exitCode
       ELSE proc' = "exited" /\ exitCode' = 1
    /\ UNCHANGED <<configOk, loggerLevel, probe, paperlessConnected, listings, loads, cache,
                   lastUpdated, remote, creates, calls>>

\* start() without its `if (!paperlessConnected) process.exit(1)`: a failed
\* connection test skips initialize() and goes on to connect the transport.
ConnectionTested_NoExit(r) ==
    /\ proc = "testing"
    /\ paperlessConnected' = (r = "ok")
    /\ IF r = "ok"
       THEN proc' = "initializing" /\ loads' = [k \in Kinds |-> "pending"]
       ELSE proc' = "initialized" /\ loads' = loads
    /\ UNCHANGED <<configOk, loggerLevel, probe, listings, exitCode, cache, lastUpdated,
                   remote, creates, calls>>

\* testPaperlessConnection returns; when connected, initialize() starts its
\* three loads at once (Promise.all), else process.exit(1).
ConnectionTested(r) ==
    /\ proc = "testing"
    /\ IF r = "ok"
       THEN /\ paperlessConnected' = TRUE
            /\ proc' = "initializing"
            /\ loads' = [k \in Kinds |-> "pending"]
            /\ exitCode' = exitCode
       ELSE /\ paperlessConnected' = FALSE
            /\ proc' = "exited"
            /\ exitCode' = 1
            /\ loads' = loads
    /\ UNCHANGED <<configOk, loggerLevel, probe, listings, cache, lastUpdated, remote, creates, calls>>

\* initialize() with `this.lastUpdated = new Date()` in a finally block: the
\* date is set when initialize() ends, also when a load failed.
LoadSettled_StampInFinally(k, r) ==
    /\ proc = "initializing"
    /\ loads[k] = "pending"
    /\ IF r = "ok"
       THEN /\ cache' = [cache EXCEPT ![k] = LoadInto(cache[k], remote[k])]
            /\ listings' = [listings EXCEPT ![k] = @ \cup {remote[k]}]
            /\ loads' = [loads EXCEPT ![k] = "ok"]
            /\ IF \A j \in Kinds \ {k} : loads[j] = "ok"
               THEN lastUpdated' = "date" /\ proc' = "initialized"
               ELSE lastUpdated' = lastUpdated /\ proc' = proc
            /\ exitCode' = exitCode
       ELSE /\ loads' = [loads EXCEPT ![k] = "failed"]
            /\ proc' = "exited"
            /\ exitCode' = 1
            /\ lastUpdated' = "date"
            /\ UNCHANGED <<cache, listings>>
    /\ UNCHANGED <<configOk, loggerLevel, probe, paperlessConnected, remote, creates, calls>>

\* One load of initialize() settles.  Its listing is installed at once; the
\* first failure rejects Promise.all, initialize() and start(), and the catch
\* of index.ts exits the process.  The last success sets lastUpdated.
LoadSettled(k, r) ==
    /\ proc = "initializing"
    /\ loads[k] = "pending"
    /\ IF r = "ok"
       THEN /\ cache' = [cache EXCEPT ![k] = LoadInto(cache[k], remote[k])]
            /\ listings' = [listings EXCEPT ![k] = @ \cup {remote[k]}]
            /\ loads' = [loads EXCEPT ![k] = "ok"]
            /\ IF \A j \in Kinds \ {k} : loads[j] = "ok"
               THEN lastUpdated' = "date" /\ proc' = "initialized"
               ELSE lastUpdated' = lastUpdated /\ proc' = proc
            /\ exitCode' = exitCode
       ELSE /\ loads' = [loads EXCEPT ![k] = "failed"]
            /\ proc' = "exited"
            /\ exitCode' = 1
            /\ UNCHANGED <<cache, lastUpdated, listings>>
    /\ UNCHANGED <<configOk, loggerLevel, probe, paperlessConnected, remote, creates, calls>>

\* server.connect(transport): tool calls can arrive from here on.
ConnectTransport ==
    /\ proc = "initialized"
    /\ proc' = "serving"
    /\ UNCHANGED <<configOk, loggerLevel, probe, paperlessConnected, listings, exitCode, loads,
                   cache, lastUpdated, remote, creates, calls>>

----------------------------------------------------------------------------
(* The CallToolRequest handler of McpOpenAPIBridge.setupMCPHandlers *)

\* The handler with the create_tag case calling createTag on the raw arguments.
parse_SkipCreateTag(tool, a) ==
    CASE tool = "get_documents" -> getDocumentSchemaIssues(a)
      [] tool = "edit_documents" -> bulkEditSchemaIssues(a)
      [] tool = "create_correspondent" -> createCorrespondentSchemaIssues(a)
      [] tool = "create_document_type" -> createDocumentTypeSchemaIssues(a)
      [] OTHER -> {}

\* schema.parse(request.params.arguments) of the tool's case: the issues of
\* the ZodError it throws, {} when it returns.  The list tools parse nothing.
parse(tool, a) ==
    CASE tool = "get_documents" -> getDocumentSchemaIssues(a)
      [] tool = "edit_documents" -> bulkEditSchemaIssues(a)
      [] tool = "create_correspondent" -> createCorrespondentSchemaIssues(a)
      [] tool = "create_document_type" -> createDocumentTypeSchemaIssues(a)
      [] tool = "create_tag" -> createTagSchemaIssues(a)
      [] OTHER -> {}

CreateUrl(tool) == ListUrl(KindOf(tool))

createBody(tool, a) ==
    CASE tool = "create_tag" -> createTagBody(a)
      [] tool = "create_correspondent" -> createCorrespondentBody(a)
      [] OTHER -> createDocumentTypeBody(a)

Returned(call, result) ==
    [call EXCEPT !.pc = "done", !.outcome = "returned", !.result = result]

Thrown(call, error) ==
    [call EXCEPT !.pc = "done", !.outcome = "thrown", !.error = error]

Awaiting(call, pc, req) ==
    [call EXCEPT !.pc = pc, !.reqs = Append(call.reqs, req)]

\* A default case that throws instead of returning the error object.
defaultCase_Throws(call) ==
    Thrown(call, [name |-> "Error", issues |-> {}, message |-> "Unknown tool"])

\* The default case of the switch.
defaultCase(call) == Returned(call, UnknownToolResult)

\* The handler from its entry to its first await (or to its end).
handleCall(tool, a, c) ==
    LET call == [IdleCall EXCEPT !.tool = tool, !.args = a]
        issues == parse(tool, a)
        parsed == [call EXCEPT !.validated = TRUE]
        edit == bulkEditDocuments(a, c)
    IN  CASE tool \in ListTools ->
               Awaiting(call, "awaitApi", Request("GET", ListUrl(KindOf(tool)), NoArgs))
          [] tool \in DeclaredTools \ ListTools /\ issues # {} ->
               Thrown(call, ZodError(issues))
          [] tool = "get_documents" /\ issues = {} ->
               Awaiting(parsed, "awaitApi",
                        Request("GET", "/api/documents/", getDocumentAllParams(a)))
          [] tool = "edit_documents" /\ issues = {} ->
               IF edit.early
               THEN Returned(parsed, edit.result)
               ELSE Awaiting(parsed, "awaitApi",
                             Request("POST", "/api/documents/bulk_edit/", edit.body))
          [] tool \in CreateTools /\ issues = {} ->
               Awaiting(parsed, "awaitApi",
                        Request("POST", CreateUrl(tool), createBody(tool, a)))
          [] OTHER -> defaultCase(call)

SlotFree(c) == calls[c].pc = "idle"

\* A tool call arrives and runs to its first await; it takes the first free
\* slot.  A create is sent only while the session's creation budget lasts.
CallTool(c, tool, a) ==
    /\ proc = "serving"
    /\ SlotFree(c)
    /\ \A d \in CallIds : d < c => ~SlotFree(d)
    /\ tool \in CreateTools => creates < MaxCreates
    /\ calls' = [calls EXCEPT ![c] = handleCall(tool, a, cache)]
    /\ UNCHANGED <<configOk, loggerLevel, probe, paperlessConnected, listings, proc, exitCode,
                   loads, cache, lastUpdated, remote, creates>>

\* The handler's promise has settled: the server sends its result (or the
\* error it threw) to the client and the call is over.
Respond(c) ==
    /\ calls[c].pc = "done"
    /\ calls' = [calls EXCEPT ![c] = IdleCall]
    /\ UNCHANGED <<configOk, loggerLevel, probe, paperlessConnected, listings, proc, exitCode,
                   loads, cache, lastUpdated, remote, creates>>

Settle(reqs, r) == [reqs EXCEPT ![Len(reqs)].status = r]

ErrorPrefix(tool) ==
    CASE tool = "create_tag" -> "Error creating tag: "
      [] tool = "create_correspondent" -> "Error creating correspondent: "
      [] tool = "create_document_type" -> "Error creating document type: "
      [] OTHER -> "Error: "

SuccessPrefix(tool) ==
    CASE tool = "create_tag" -> "Tag created successfully: "
      [] tool = "create_correspondent" -> "Correspondent created successfully: "
      [] tool = "create_document_type" -> "Document Type created successfully: "
      [] tool = "edit_documents" -> "edit completed successfully: "
      [] tool = "get_documents" -> "documents"
      [] OTHER -> "listing"

\* The catch block of every PaperlessAPI method.
apiCatch(tool, r) == ErrorEnvelope(Text(ErrorPrefix(tool), <<>>, 0, <<>>, AxiosMessage(r)))

\* The create case without its refresh: the create's result is returned at
\* once.
afterCreate_NoRefresh(call, result) == Returned(call, result)

\* The create case after the create's result is in hand: the refresh of the
\* kind is awaited next, whatever the result.
afterCreate(call, result) ==
    Awaiting([call EXCEPT !.result = result], "awaitRefresh",
             Request("GET", CreateUrl(call.tool), NoArgs))

\* The ID the remote service gives the next entity it creates: one it has
\* never given before (the initial entities have ID 1).
NewId == creates + 2

\* The response to the call's own request arrives.
ApiResponse(c, r) ==
    LET call == [calls[c] EXCEPT !.reqs = Settle(calls[c].reqs, r)]
        tool == call.tool
        k == KindOf(tool)
        created == Entity(NewId, call.args.name.s)
    IN  /\ proc = "serving"
        /\ calls[c].pc = "awaitApi"
        /\ IF tool \in CreateTools
           THEN IF r = "ok"
                THEN /\ remote' = [remote EXCEPT ![k] = Append(remote[k], created)]
                     /\ creates' = creates + 1
                     /\ calls' = [calls EXCEPT ![c] =
                            afterCreate(call, SuccessEnvelope(
                                Text(SuccessPrefix(tool), created.name, created.id, <<>>, "")))]
                ELSE /\ calls' = [calls EXCEPT ![c] = afterCreate(call, apiCatch(tool, r))]
                     /\ UNCHANGED <<remote, creates>>
           ELSE /\ calls' = [calls EXCEPT ![c] =
                       Returned(call,
                           IF r # "ok" THEN apiCatch(tool, r)
                           ELSE IF tool \in ListTools
                                THEN SuccessEnvelope(
                                        Text(SuccessPrefix(tool), <<>>, 0, remote[k], ""))
                                ELSE SuccessEnvelope(
                                        Text(SuccessPrefix(tool), <<>>, 0, <<>>, "")))]
                /\ UNCHANGED <<remote, creates>>
        /\ UNCHANGED <<configOk, loggerLevel, probe, paperlessConnected, listings, proc,
                       exitCode, loads, cache, lastUpdated>>

\* A refresh that fetches the listing and installs nothing.
refreshKind_NoInstall(call, m, listing, r) ==
    IF r = "ok"
    THEN [map |-> m, call |-> Returned(call, call.result)]
    ELSE [map |-> m, call |-> Thrown(call, AxiosError(r))]

\* A refresh that clears the map before it fetches, so that a failed fetch
\* leaves it empty.
refreshKind_ClearFirst(call, m, listing, r) ==
    IF r = "ok"
    THEN [map |-> LoadInto(<<>>, listing), call |-> Returned(call, call.result)]
    ELSE [map |-> <<>>, call |-> Thrown(call, AxiosError(r))]

\* refreshTags / refreshCorrespondents / refreshDocumentTypes: the listing
\* arrived, or the fetch failed and the load rethrows.
refreshKind(call, m, listing, r) ==
    IF r = "ok"
    THEN [map |-> LoadInto(m, listing), call |-> Returned(call, call.result)]
    ELSE [map |-> m, call |-> Thrown(call, AxiosError(r))]

\* The remote service answers the listing request of a refresh: what it
\* holds at this moment is the listing the response will carry.
RefreshServed(c) ==
    /\ proc = "serving"
    /\ calls[c].pc = "awaitRefresh"
    /\ ~calls[c].served
    /\ calls' = [calls EXCEPT ![c].served = TRUE,
                              ![c].listing = remote[KindOf(calls[c].tool)]]
    /\ UNCHANGED <<configOk, loggerLevel, probe, paperlessConnected, listings, proc,
                   exitCode, loads, cache, lastUpdated, remote, creates>>

\* The response to the refresh of a create call arrives: the listing the
\* service answered with, or what it holds now when it answers just now.
RefreshResponse(c, r) ==
    LET k == KindOf(calls[c].tool)
        listing == IF calls[c].served THEN calls[c].listing ELSE remote[k]
        call == [calls[c] EXCEPT !.reqs = Settle(calls[c].reqs, r),
                                 !.served = (r = "ok"),
                                 !.listing = IF r = "ok" THEN listing ELSE <<>>]
        done == refreshKind(call, cache[k], listing, r)
    IN  /\ proc = "serving"
        /\ calls[c].pc = "awaitRefresh"
        /\ cache' = [cache EXCEPT ![k] = done.map]
        /\ listings' = [listings EXCEPT ![k] = IF r = "ok" THEN @ \cup {listing} ELSE @]
        /\ calls' = [calls EXCEPT ![c] = done.call]
        /\ UNCHANGED <<configOk, loggerLevel, probe, paperlessConnected, proc, exitCode, loads,
                       lastUpdated, remote, creates>>

----------------------------------------------------------------------------
(* Specification: the transport delivers the calls one at a time. *)

NoCallInFlight == \A c \in CallIds : SlotFree(c)

\* The client sends its next call once the previous one was answered.
DeliverCall(c, tool, a) == NoCallInFlight /\ CallTool(c, tool, a)

Next ==
    \/ Construct
    \/ \E r \in RemoteOutcomes : ConnectionTested(r)
    \/ \E k \in Kinds, r \in RemoteOutcomes : LoadSettled(k, r)
    \/ ConnectTransport
    \/ \E c \in CallIds, tool \in DeclaredTools \cup UnknownTools :
          \E a \in ArgsOf(tool) : DeliverCall(c, tool, a)
    \/ \E c \in CallIds, r \in RemoteOutcomes : ApiResponse(c, r)
    \/ \E c \in CallIds, r \in RemoteOutcomes : RefreshResponse(c, r)
    \/ \E c \in CallIds : Respond(c)

Spec == Init /\ [][Next]_vars

----------------------------------------------------------------------------
(* Properties *)

ArgTools == DeclaredTools \ ListTools

Active(c) == calls[c].pc # "idle"
Done(c) == calls[c].pc = "done"

BulkEditUrl == "/api/documents/bulk_edit/"

BulkEditsOf(call) == {i \in 1..Len(call.reqs) : call.reqs[i].url = BulkEditUrl}

\* The schema the tool declares for its arguments.
SchemaOf(tool, a) ==
    CASE tool = "get_documents" -> getDocumentSchemaIssues(a)
      [] tool = "edit_documents" -> bulkEditSchemaIssues(a)
      [] tool = "create_correspondent" -> createCorrespondentSchemaIssues(a)
      [] tool = "create_document_type" -> createDocumentTypeSchemaIssues(a)
      [] OTHER -> createTagSchemaIssues(a)

InitializeFailed == \E k \in Kinds : loads[k] = "failed"

\* C1 (as claimed): when initialize() reports failure, all three mappings
\* hold what they held before the call, which is nothing: initialize() runs
\* once, on the empty cache.
C1_FailedInitializeLeavesCache ==
    InitializeFailed => cache = EmptyCache

CreateOk(call) ==
    /\ call.tool \in CreateTools
    /\ Len(call.reqs) >= 1
    /\ call.reqs[1].status = "ok"

RefreshFailed(call) ==
    /\ Len(call.reqs) = 2
    /\ call.reqs[2].status \notin {"ok", "pending"}

\* C2 (as claimed): a create call whose create succeeded and whose re-fetch
\* failed returns the create's success envelope and does not throw.
C2_RefreshFailureNotSurfaced ==
    \A c \in CallIds :
        (CreateOk(calls[c]) /\ RefreshFailed(calls[c]))
            => /\ calls[c].outcome = "returned"
               /\ calls[c].result.shape = "envelope"
               /\ ~calls[c].result.isError

\* C3 (as claimed): the bulk-edit request of set_correspondent (resp.
\* set_document_type) with a name the cache resolves carries the numeric ID
\* the cache maps the name to.
C3_BulkEditCarriesResolvedId ==
    \A c \in CallIds : \A i \in BulkEditsOf(calls[c]) :
        LET a == calls[c].args
            body == calls[c].reqs[i].body
        IN  /\ (a.method = Str(<<"set_correspondent">>) /\ a.correspondent # Undefined)
                => body.parameters.correspondent
                       = getCorrespondentIDByName(cache, a.correspondent.s)
            /\ (a.method = Str(<<"set_document_type">>) /\ a.document_type # Undefined)
                => body.parameters.document_type
                       = getDocumentTypeIDByName(cache, a.document_type.s)

\* The call is an edit_documents call that passed its schema, sets the given
\* field by name, and no cached entity of the kind has that name.
Unresolved(call, method, field, kind) ==
    /\ call.tool = "edit_documents"
    /\ call.validated
    /\ call.args.method = Str(<<method>>)
    /\ call.args[field] # Undefined
    /\ \A i \in 1..Len(cache[kind]) :
          toLowerCase(trim(cache[kind][i].name)) # toLowerCase(trim(call.args[field].s))

NotFoundEnvelope(call, field) ==
    /\ call.pc = "done"
    /\ call.outcome = "returned"
    /\ call.result.shape = "envelope"
    /\ call.result.isError
    /\ call.result.text.name = call.args[field].s
    /\ call.result.text.message = "\" not found."

\* C4: edit_documents with set_correspondent (resp. set_document_type) and a
\* name no cached entity of the kind matches returns the "not found" error
\* envelope, and the call sends no bulk-edit request.
C4_UnresolvedNameSendsNothing ==
    \A c \in CallIds :
        /\ Unresolved(calls[c], "set_correspondent", "correspondent", "correspondents")
             => /\ NotFoundEnvelope(calls[c], "correspondent")
                /\ BulkEditsOf(calls[c]) = {}
        /\ Unresolved(calls[c], "set_document_type", "document_type", "documentTypes")
             => /\ NotFoundEnvelope(calls[c], "document_type")
                /\ BulkEditsOf(calls[c]) = {}

C4_Witness ==
    \E c \in CallIds :
        /\ Unresolved(calls[c], "set_correspondent", "correspondent", "correspondents")
        /\ cache.correspondents # <<>>
        /\ NotFoundEnvelope(calls[c], "correspondent")

\* A create call that returned with the create and the re-fetch successful.
CreatedAndRefreshed(call) ==
    /\ call.pc = "done"
    /\ CreateOk(call)
    /\ Len(call.reqs) = 2
    /\ call.reqs[2].status = "ok"

SameName(n1, n2) == toLowerCase(trim(n1)) = toLowerCase(trim(n2))

\* C5 (as claimed): after such a create call, the lookup of the created name
\* returns the new entity's ID.
C5_LookupFindsCreatedEntity ==
    \A c \in CallIds :
        CreatedAndRefreshed(calls[c])
            => IDByName(cache[KindOf(calls[c].tool)], calls[c].args.name.s)
                   = Num(calls[c].result.text.id)

\* C5 (amended): when such a create call returns, the kind's mapping is the
\* re-fetched listing, which lists the new entity, and the lookup of the
\* created name returns the ID of the first listed entity whose name equals
\* it after trimming and lower-casing: the new entity's ID when no entity
\* listed before it has such a name.
C5_LookupFindsFirstMatch ==
    \A c \in CallIds :
        CreatedAndRefreshed(calls[c]) =>
            LET k == KindOf(calls[c].tool)
                name == calls[c].args.name.s
                newId == calls[c].result.text.id
                found == IDByName(cache[k], name)
                matches == {i \in 1..Len(remote[k]) : SameName(remote[k][i].name, name)}
            IN  /\ calls[c].outcome = "returned"
                /\ cache[k] = remote[k]
                /\ \E i \in matches : remote[k][i].id = newId
                /\ \E i \in matches :
                      /\ \A j \in matches : i <= j
                      /\ found = Num(remote[k][i].id)
                /\ (\A i \in matches : remote[k][i].id = newId) => found = Num(newId)

C5_Witness ==
    \E c \in CallIds :
        /\ CreatedAndRefreshed(calls[c])
        /\ calls[c].outcome = "returned"
        /\ IDByName(cache[KindOf(calls[c].tool)], calls[c].args.name.s)
               = Num(calls[c].result.text.id)
        /\ Len(cache[KindOf(calls[c].tool)]) >= 2

\* The edit_documents arguments lack the field their method needs.
LacksMethodField(a) ==
    /\ a.isObject
    /\ \/ a.method = Str(<<"set_correspondent">>) /\ a.correspondent = Undefined
       \/ a.method = Str(<<"set_document_type">>) /\ a.document_type = Undefined

\* C6 (as claimed): an edit_documents call without the field its method
\* needs is rejected by schema validation and sends no bulk-edit request.
C6_MissingMethodFieldRejected ==
    \A c \in CallIds :
        (calls[c].tool = "edit_documents" /\ LacksMethodField(calls[c].args))
            => /\ calls[c].pc = "done"
               /\ calls[c].error.name = "ZodError"
               /\ BulkEditsOf(calls[c]) = {}

\* C7: for every tool that takes arguments, a call that has issued a remote
\* request has completed its schema validation, and its arguments satisfy
\* the tool's schema; a call whose arguments fail the schema is over without
\* any remote request.
C7_ValidationBeforeAnyRequest ==
    \A c \in CallIds :
        (Active(c) /\ calls[c].tool \in ArgTools) =>
            /\ calls[c].reqs # <<>>
                 => calls[c].validated /\ SchemaOf(calls[c].tool, calls[c].args) = {}
            /\ SchemaOf(calls[c].tool, calls[c].args) # {}
                 => Done(c) /\ calls[c].reqs = <<>>

C7_Witness ==
    \E c \in CallIds :
        /\ calls[c].tool = "create_tag"
        /\ calls[c].args.color = Str(ColorWord)
        /\ SchemaOf(calls[c].tool, calls[c].args) = {"color"}
        /\ Done(c)
        /\ calls[c].reqs = <<>>

\* C8 (as claimed): a call whose arguments fail the schema returns the error
\* envelope; the failure does not leave the handler as a thrown exception.
C8_ValidationFailureReturnsEnvelope ==
    \A c \in CallIds :
        (Done(c) /\ calls[c].tool \in ArgTools
                 /\ SchemaOf(calls[c].tool, calls[c].args) # {})
            => /\ calls[c].outcome = "returned"
               /\ calls[c].result.shape = "envelope"
               /\ calls[c].result.isError

AllRequestsFailed(call) ==
    /\ call.reqs # <<>>
    /\ \A i \in 1..Len(call.reqs) : call.reqs[i].status \notin {"ok", "pending"}

\* C9 (as claimed): a call all of whose remote requests failed returns an
\* envelope with isError true; no remote failure makes the handler throw.
C9_RemoteFailureReturnsEnvelope ==
    \A c \in CallIds :
        (Done(c) /\ AllRequestsFailed(calls[c]))
            => /\ calls[c].outcome = "returned"
               /\ calls[c].result.shape = "envelope"
               /\ calls[c].result.isError

\* C10: a call of a tool outside the eight declared ones is over at once: it
\* returns the "unknown tool" error object, throws nothing and sends no
\* request; no call of a declared tool ends with that object, whether it
\* succeeds, fails validation or fails remotely.
C10_UnknownToolDistinctError ==
    \A c \in CallIds :
        Active(c) =>
            /\ calls[c].tool \notin DeclaredTools
                 => /\ Done(c)
                    /\ calls[c].outcome = "returned"
                    /\ calls[c].result.shape = "jsonrpc_error"
                    /\ calls[c].result.text.message = "Unknown tool: invalid_tool_name"
                    /\ calls[c].reqs = <<>>
            /\ (calls[c].tool \in DeclaredTools /\ Done(c))
                 => /\ calls[c].result.shape # "jsonrpc_error"
                    /\ calls[c].outcome = "thrown" \/ calls[c].result.shape = "envelope"

C10_Witness ==
    \E c \in CallIds :
        /\ calls[c].tool = "delete_documents"
        /\ Done(c)
        /\ calls[c].outcome = "returned"
        /\ calls[c].result.shape = "jsonrpc_error"

----------------------------------------------------------------------------
(* Specification QuerySpec: the same bridge with a client that sends only  *)
(* get_documents, over every combination of its arguments.                 *)

DateWord == <<"2024-01-01">>

\* Every filter key absent or present, valid, ill-typed or empty; the limit
\* absent, zero, positive or ill-typed.
WideGetArgs ==
    {[NoArgs EXCEPT !.id = i, !.content__icontains = ct, !.title = ti, !.tag = tg,
                    !.correspondent = co, !.created__date__gte = ge,
                    !.created__date__lte = le, !.document_type = dt, !.limit = li] :
        i \in {Undefined, Num(1), Num(0)},
        ct \in {Undefined, Str(NameA)},
        ti \in {Undefined, Str(NameA), Num(1)},
        tg \in {Undefined, Str(NameA), Str(NameC), Str(<<>>)},
        co \in {Undefined, Str(NameC)},
        ge \in {Undefined, Str(DateWord)},
        le \in {Undefined, Str(DateWord)},
        dt \in {Undefined, Str(NameC), Str(<<>>)},
        li \in {Undefined, Num(0), Num(5), Str(NameA)}}
    \cup {MissingArgs}

\* The client sends a get_documents call once the previous call was answered.
DeliverQuery ==
    /\ NoCallInFlight
    /\ \E c \in CallIds, a \in WideGetArgs : DeliverCall(c, "get_documents", a)

NextQuery ==
    \/ Construct
    \/ \E r \in RemoteOutcomes : ConnectionTested(r)
    \/ \E k \in Kinds, r \in RemoteOutcomes : LoadSettled(k, r)
    \/ ConnectTransport
    \/ DeliverQuery
    \/ \E c \in CallIds, r \in RemoteOutcomes : ApiResponse(c, r)
    \/ \E c \in CallIds : Respond(c)

QuerySpec == Init /\ [][NextQuery]_vars

DocumentsUrl == "/api/documents/"

IsDocumentQuery(c) == Active(c) /\ calls[c].tool = "get_documents"

FilterKeyValues(a) ==
    {a.id, a.content__icontains, a.title, a.tag, a.correspondent,
     a.created__date__gte, a.created__date__lte, a.document_type}

NoFilterKey(a) == FilterKeyValues(a) = {Undefined}

AbsentOrString(v) == v.t \in {"undefined", "string"}

WellTypedQuery(a) ==
    /\ a.isObject
    /\ a.id.t = "undefined" \/ (a.id.t = "number" /\ a.id.n >= 1)
    /\ \A v \in {a.content__icontains, a.title, a.tag, a.correspondent,
                  a.created__date__gte, a.created__date__lte, a.document_type} :
           AbsentOrString(v)
    /\ a.limit.t \in {"undefined", "number"}

Rejected(c) ==
    /\ Done(c)
    /\ calls[c].outcome = "thrown"
    /\ calls[c].error.name = "ZodError"
    /\ ~calls[c].validated
    /\ calls[c].reqs = <<>>

Accepted(c) == calls[c].validated /\ Len(calls[c].reqs) = 1

\* C11: get_documents validation rejects every argument object that holds
\* none of the eight filter keys ({} and a limit-only object included), and
\* accepts a well-typed object as soon as one filter key is present.
C11_FilterKeyRequired ==
    \A c \in CallIds :
        IsDocumentQuery(c) =>
            /\ (calls[c].args.isObject /\ NoFilterKey(calls[c].args)) => Rejected(c)
            /\ (WellTypedQuery(calls[c].args) /\ ~NoFilterKey(calls[c].args))
                   => Accepted(c)

\* A limit-only object was rejected.
C11_Witness ==
    \E c \in CallIds :
        /\ IsDocumentQuery(c)
        /\ calls[c].args = [NoArgs EXCEPT !.limit = Num(5)]
        /\ Rejected(c)


----------------------------------------------------------------------------
(* modify_tags *)

Normal(chars) == toLowerCase(trim(chars))

\* The cached tags whose name matches, by position in the map.
TagMatches(name) == {j \in 1..Len(cache.tags) : Normal(cache.tags[j].name) = Normal(name.s)}

FirstTagMatch(name) == CHOOSE j \in TagMatches(name) : \A i \in TagMatches(name) : j <= i

\* The IDs of the names that resolve, in the order of the names.
ResolvedTagIds(names) ==
    LET Resolves(name) == TagMatches(name) # {}
        kept == SelectSeq(names, Resolves)
    IN  [i \in 1..Len(kept) |-> Num(cache.tags[FirstTagMatch(kept[i])].id)]

IsModifyTags(c) ==
    /\ Active(c)
    /\ calls[c].tool = "edit_documents"
    /\ calls[c].validated
    /\ calls[c].args.method.s = <<"modify_tags">>

C12_WitnessOrder ==
    \E c \in CallIds :
        /\ IsModifyTags(c)
        /\ calls[c].reqs[1].body.parameters.add_tags = Arr(<<Num(2), Num(1)>>)


----------------------------------------------------------------------------
(* get_documents: the query that is sent *)

DocumentQueries(c) ==
    {calls[c].reqs[i] : i \in {j \in 1..Len(calls[c].reqs) :
                                  calls[c].reqs[j].url = DocumentsUrl}}

\* A supplied, non-empty name is passed on as it is.
SentAsGiven(v, sent) == (v.t = "string" /\ v.s # <<>>) => sent = v

\* A text the write path returns when a name does not resolve.
IsResolutionError(result) == result.isError /\ result.text.message = "\" not found."

\* The query as a function of the arguments alone.
QueryOfArguments(a) ==
    LET given(v) == IF v = Undefined \/ v = Str(<<>>) THEN Undefined ELSE v
    IN  [page_size |-> IF a.limit = Undefined THEN Num(10) ELSE a.limit,
         id |-> a.id,
         content__icontains |-> given(a.content__icontains),
         title__icontains |-> given(a.title),
         tags__name__icontains |-> given(a.tag),
         correspondent__name__icontains |-> given(a.correspondent),
         created__date__gte |-> given(a.created__date__gte),
         created__date__lte |-> given(a.created__date__lte),
         document_type__name__icontains |-> given(a.document_type)]

C18_PageSizeIsLimitOrTen ==
    \A c \in CallIds :
        IsDocumentQuery(c) =>
            \A q \in DocumentQueries(c) :
                /\ calls[c].args.limit # Undefined => q.body.page_size = calls[c].args.limit
                /\ calls[c].args.limit = Undefined => q.body.page_size = Num(10)

\* A query with limit 0 was sent with page_size 0.
C18_Witness ==
    \E c \in CallIds :
        /\ IsDocumentQuery(c)
        /\ calls[c].args.limit = Num(0)
        /\ \E q \in DocumentQueries(c) : q.body.page_size = Num(0)

\* A query without a limit was sent with page_size 10.
C18_WitnessDefault ==
    \E c \in CallIds :
        /\ IsDocumentQuery(c)
        /\ calls[c].args.limit = Undefined
        /\ \E q \in DocumentQueries(c) : q.body.page_size = Num(10)


----------------------------------------------------------------------------
(* Bootstrap order *)

InitializeSucceeded == (\A k \in Kinds : loads[k] = "ok") /\ lastUpdated = "date"

BootstrapFailed ==
    \/ proc # "start" /\ ~configOk
    \/ proc \notin {"start", "testing"} /\ ~paperlessConnected
    \/ \E k \in Kinds : loads[k] = "failed"

BootstrapOrder ==
    /\ proc \in {"initialized", "serving"}
           => configOk /\ paperlessConnected /\ InitializeSucceeded
    /\ BootstrapFailed => proc = "exited" /\ exitCode = 1
    /\ proc # "serving" => \A c \in CallIds : ~Active(c)
    /\ proc # "exited" => exitCode = -1

\* C14: the transport is connected only after the configuration was present,
\* the connection test succeeded and initialize() completed; when one of the
\* three fails the process exits with status 1, no call is being handled,
\* and the exit is final.
C14_TransportAfterBootstrap ==
    /\ []BootstrapOrder
    /\ [][proc = "exited" => proc' = "exited" /\ calls' = calls]_vars

\* The transport was connected and a call is being handled.
C14_Witness ==
    /\ proc = "serving"
    /\ configOk /\ paperlessConnected /\ InitializeSucceeded
    /\ \E c \in CallIds : Active(c)

\* The connection test failed and the process exited with status 1.
C14_WitnessExit ==
    /\ proc = "exited"
    /\ configOk
    /\ ~paperlessConnected
    /\ exitCode = 1


----------------------------------------------------------------------------
(* PaperlessAPI.formatDocument: the three cache-derived parts of its text *)

NotAvailable == <<"N", "/", "A">>

\* Array.prototype.join(", ") on strings
RECURSIVE Join(_)
Join(strings) ==
    IF strings = <<>> THEN <<>>
    ELSE IF Len(strings) = 1 THEN Head(strings)
    ELSE Head(strings) \o <<",", " ">> \o Join(Tail(strings))

\* x || "N/A" on a string or undefined
OrNotAvailable(chars) == IF chars = <<>> THEN NotAvailable ELSE chars

\* formatDocument reading .name and .map without the optional chaining.
formatDocument_NoOptionalChaining(c, doc) ==
    LET tags == getTagsByIds(c, doc.tags)
        correspondent == getCorrespondentById(c, doc.correspondent)
        documentType == getDocumentTypeById(c, doc.document_type)
    IN  [value |-> Undefined,
         text |-> [tags |-> OrNotAvailable(
                               IF tags = Undefined THEN <<>>
                               ELSE Join([i \in 1..Len(tags.l) |-> tags.l[i].s])),
                   correspondent |-> OrNotAvailable(correspondent.s),
                   documentType |-> OrNotAvailable(documentType.s)],
         threw |-> Undefined \in {tags, correspondent, documentType},
         written |-> FALSE]

formatDocument(c, doc) ==
    LET tags == getTagsByIds(c, doc.tags)
        correspondent == getCorrespondentById(c, doc.correspondent)
        documentType == getDocumentTypeById(c, doc.document_type)
    IN  [value |-> Undefined,
         text |-> [tags |-> OrNotAvailable(
                               IF tags = Undefined THEN <<>>
                               ELSE Join([i \in 1..Len(tags.l) |-> tags.l[i].s])),
                   correspondent |-> OrNotAvailable(
                               IF correspondent = Undefined THEN <<>> ELSE correspondent.s),
                   documentType |-> OrNotAvailable(
                               IF documentType = Undefined THEN <<>> ELSE documentType.s)],
         threw |-> FALSE,
         written |-> FALSE]

----------------------------------------------------------------------------
(* Logger (the LOGGER_LEVEL variant) *)

Digits == <<"0", "1", "2", "3", "4", "5", "6", "7", "8", "9">>

IsDigit(ch) == \E d \in 1..Len(Digits) : Digits[d] = ch

DigitValue(ch) == (CHOOSE d \in 1..Len(Digits) : Digits[d] = ch) - 1

\* The value of the longest prefix of digits, continuing from acc.
RECURSIVE ParseDigits(_, _)
ParseDigits(chars, acc) ==
    IF chars = <<>> \/ ~IsDigit(Head(chars)) THEN acc
    ELSE ParseDigits(Tail(chars), acc * 10 + DigitValue(Head(chars)))

\* parseInt(v): leading whitespace skipped, an optional sign, then digits;
\* NaN when no digit follows, and for undefined.
parseInt(v) ==
    LET body == IF v.t = "string" THEN TrimStart(v.s) ELSE <<>>
        signed == body # <<>> /\ Head(body) \in {"-", "+"}
        digits == IF signed THEN Tail(body) ELSE body
    IN  IF digits = <<>> \/ ~IsDigit(Head(digits)) THEN NaN
        ELSE IF signed /\ Head(body) = "-" THEN Num(0 - ParseDigits(digits, 0))
        ELSE Num(ParseDigits(digits, 0))

\* x < k in JavaScript: false when x is NaN
LessThan(x, k) == x.t = "number" /\ x.n < k

\* Whether the method writes its line to stderr.
Logger_info(level) == ~LessThan(parseInt(level), 1)
Logger_error(level) == TRUE
Logger_debug(level) == ~LessThan(parseInt(level), 2)


----------------------------------------------------------------------------
(* Specification MethodSpec: the bootstrap, with the methods of            *)
(* CachedMetadata, PaperlessAPI.formatDocument and the Logger called       *)
(* directly at any point of it.  A direct call is synchronous: it returns  *)
(* before anything else happens.                                           *)

NamePaddedUpperA == <<" ", "A", " ">>
NameAB == <<"a", "b">>
NameUpperB == <<"B", " ">>

\* Listings: empty; one padded name; a name that contains another; two names
\* equal up to case.
Listings ==
    {<<>>,
     <<Entity(1, NamePaddedUpperA)>>,
     <<Entity(1, NameAB), Entity(2, NameB)>>,
     <<Entity(3, NameA), Entity(1, NameLowerA), Entity(2, NameB)>>}

MethodRemotes ==
    {[tags |-> l, correspondents |-> l, documentTypes |-> l] : l \in Listings}
    \cup {[tags |-> <<Entity(3, NameA), Entity(1, NameLowerA), Entity(2, NameB)>>,
           correspondents |-> <<>>,
           documentTypes |-> <<Entity(1, NamePaddedUpperA)>>]}

LevelZero == <<"0">>
LevelOne == <<"1">>
LevelTwo == <<"2">>

\* LOGGER_LEVEL: unset, the documented levels, a larger one, not a number.
LevelSamples ==
    {Undefined, Str(LevelZero), Str(LevelOne), Str(LevelTwo), Str(<<"3">>),
     Str(<<"d", "e", "b", "u", "g">>)}

ProbeNames == {NameA, NameLowerA, NamePaddedA, NameAB, NameB, NameUpperB, NameC, <<>>}

ProbeIdLists ==
    {Undefined, Arr(<<>>), Arr(<<Num(1)>>), Arr(<<Num(9)>>),
     Arr(<<Num(2), Num(9), Num(1)>>), Arr(<<Num(1), Num(1)>>),
     Arr(<<Num(3), Num(2)>>)}

ProbeIds == {Null, Num(1), Num(2), Num(9)}

ProbeDocs ==
    {[tags |-> t, correspondent |-> co, document_type |-> dt] :
        t \in {Arr(<<>>), Arr(<<Num(1), Num(9)>>), Arr(<<Num(2), Num(1)>>)},
        co \in {Null, Num(1), Num(9)},
        dt \in {Null, Num(1)}}

LoggerMethods == {"info", "error", "debug"}

InitMethod ==
    /\ configOk \in BOOLEAN
    /\ loggerLevel \in LevelSamples
    /\ probe = NoProbe
    /\ paperlessConnected = FALSE
    /\ listings = [k \in Kinds |-> {}]
    /\ proc = "start"
    /\ exitCode = -1
    /\ loads = [k \in Kinds |-> "idle"]
    /\ cache = EmptyCache
    /\ lastUpdated = "null"
    /\ remote \in MethodRemotes
    /\ creates = 0
    /\ calls = [c \in CallIds |-> IdleCall]

\* No direct call is running and the process is alive.
Quiet == probe = NoProbe /\ proc # "exited"

Called(op, input, output) ==
    /\ Quiet
    /\ probe' = [op |-> op, input |-> input, output |-> output]
    /\ UNCHANGED <<configOk, loggerLevel, paperlessConnected, listings, proc, exitCode,
                   loads, cache, lastUpdated, remote, creates, calls>>

IDByNameMethod(kind) ==
    CASE kind = "tags" -> "getTagIDByName"
      [] kind = "correspondents" -> "getCorrespondentIDByName"
      [] OTHER -> "getDocumentTypeIDByName"

CallIDByName(kind, name) ==
    Called(IDByNameMethod(kind),
           [NoInput EXCEPT !.kind = kind, !.arg = Str(name)],
           [NoOutput EXCEPT !.value =
               CASE kind = "tags" -> getTagIDByName(cache, name)
                 [] kind = "correspondents" -> getCorrespondentIDByName(cache, name)
                 [] OTHER -> getDocumentTypeIDByName(cache, name)])

CallGetTagsByIds(ids) ==
    Called("getTagsByIds", [NoInput EXCEPT !.kind = "tags", !.arg = ids],
           [NoOutput EXCEPT !.value = getTagsByIds(cache, ids)])

CallGetById(kind, id) ==
    Called(IF kind = "correspondents" THEN "getCorrespondentById"
           ELSE "getDocumentTypeById",
           [NoInput EXCEPT !.kind = kind, !.arg = id],
           [NoOutput EXCEPT !.value =
               IF kind = "correspondents" THEN getCorrespondentById(cache, id)
               ELSE getDocumentTypeById(cache, id)])

CallFormatDocument(doc) ==
    Called("formatDocument", [NoInput EXCEPT !.doc = doc], formatDocument(cache, doc))

CallLogger(method) ==
    Called(method, NoInput,
           [NoOutput EXCEPT !.written =
               CASE method = "info" -> Logger_info(loggerLevel)
                 [] method = "debug" -> Logger_debug(loggerLevel)
                 [] OTHER -> Logger_error(loggerLevel)])

\* The direct call returns to its caller.
CallReturns ==
    /\ probe # NoProbe
    /\ probe' = NoProbe
    /\ UNCHANGED <<configOk, loggerLevel, paperlessConnected, listings, proc, exitCode,
                   loads, cache, lastUpdated, remote, creates, calls>>

NextMethod ==
    \/ Quiet /\ Construct
    \/ Quiet /\ \E r \in RemoteOutcomes : ConnectionTested(r)
    \/ Quiet /\ \E k \in Kinds, r \in RemoteOutcomes : LoadSettled(k, r)
    \/ Quiet /\ ConnectTransport
    \/ \E kind \in Kinds, name \in ProbeNames : CallIDByName(kind, name)
    \/ \E ids \in ProbeIdLists : CallGetTagsByIds(ids)
    \/ \E kind \in {"correspondents", "documentTypes"}, id \in ProbeIds :
          CallGetById(kind, id)
    \/ \E doc \in ProbeDocs : CallFormatDocument(doc)
    \/ \E method \in LoggerMethods : CallLogger(method)
    \/ CallReturns

MethodSpec == InitMethod /\ [][NextMethod]_vars


----------------------------------------------------------------------------
(* Lookups *)

IDByNameMethods == {"getTagIDByName", "getCorrespondentIDByName", "getDocumentTypeIDByName"}
ByIdMethods == {"getCorrespondentById", "getDocumentTypeById"}

\* The positions of the cached entities of a kind whose name equals the given
\* name once both are trimmed and lower-cased.
NameMatches(kind, name) ==
    {j \in 1..Len(cache[kind]) : Normal(cache[kind][j].name) = Normal(name)}

\* C15: a name lookup returns the ID of a cached entity of its kind whose
\* name equals the given name after trimming and lower-casing both, and
\* returns undefined exactly when no cached entity of the kind matches so; a
\* cached name that merely contains the given name is no match.
C15_NameLookupIsNormalisedEquality ==
    probe.op \in IDByNameMethods =>
        LET matches == NameMatches(probe.input.kind, probe.input.arg.s)
        IN  /\ ~probe.output.threw
            /\ matches = {} <=> probe.output.value = Undefined
            /\ matches # {} =>
                   \E j \in matches :
                       probe.output.value = Num(cache[probe.input.kind][j].id)

\* The cached tag " A " was found by "a".
C15_Witness ==
    /\ probe.op = "getTagIDByName"
    /\ cache.tags = <<Entity(1, NamePaddedUpperA)>>
    /\ probe.input.arg = Str(NameLowerA)
    /\ probe.output.value = Num(1)

\* The cached tags are "ab" and "b": "a" was not found.
C15_WitnessSubstring ==
    /\ probe.op = "getTagIDByName"
    /\ cache.tags = <<Entity(1, NameAB), Entity(2, NameB)>>
    /\ probe.input.arg = Str(NameLowerA)
    /\ probe.output.value = Undefined

\* The cached tag under an ID, which the map holds.
TagUnder(id) == Obj(cache.tags[CHOOSE j \in 1..Len(cache.tags) : cache.tags[j].id = id.n])

\* C16: getTagsByIds returns, for a non-empty list of IDs, the cached tags
\* whose IDs occur in it, in the order of the list, unknown IDs dropped; for
\* an empty list and for a missing list it returns undefined.
C16_TagsByIdsInInputOrder ==
    probe.op = "getTagsByIds" =>
        LET ids == probe.input.arg
            Known(id) == id.n \in MapKeys(cache.tags)
            known == SelectSeq(ids.l, Known)
        IN  /\ ~probe.output.threw
            /\ (ids = Undefined \/ ids = Arr(<<>>)) => probe.output.value = Undefined
            /\ (ids.t = "array" /\ ids.l # <<>>) =>
                   probe.output.value = Arr([i \in 1..Len(known) |-> TagUnder(known[i])])

\* IDs [2, 9, 1] against tags 3, 1, 2 gave the tags 2 and 1, in that order.
C16_Witness ==
    /\ probe.op = "getTagsByIds"
    /\ probe.input.arg = Arr(<<Num(2), Num(9), Num(1)>>)
    /\ MapKeys(cache.tags) = {1, 2, 3}
    /\ probe.output.value = Arr(<<Obj(Entity(2, NameB)), Obj(Entity(1, NameLowerA))>>)

\* The missing list gave undefined against a loaded cache.
C16_WitnessMissing ==
    /\ probe.op = "getTagsByIds"
    /\ probe.input.arg = Undefined
    /\ cache.tags # <<>>
    /\ probe.output.value = Undefined

\* No load has received a listing yet: the cache is as constructed.
NeverLoaded == lastUpdated = "null" /\ \A k \in Kinds : listings[k] = {}

\* C17: while no load has succeeded, no lookup throws: a name lookup and a
\* single-ID lookup return undefined, a list-ID lookup returns undefined or
\* the empty array, and formatDocument completes with "N/A" for the tags,
\* the correspondent and the document type.
C17_UninitializedLookupsReturn ==
    (NeverLoaded /\ probe.op \in IDByNameMethods \cup ByIdMethods
                                   \cup {"getTagsByIds", "formatDocument"}) =>
        /\ ~probe.output.threw
        /\ probe.op \in IDByNameMethods \cup ByIdMethods => probe.output.value = Undefined
        /\ probe.op = "getTagsByIds" => probe.output.value \in {Undefined, Arr(<<>>)}
        /\ probe.op = "formatDocument" =>
               probe.output.text = [tags |-> NotAvailable, correspondent |-> NotAvailable,
                                    documentType |-> NotAvailable]

\* formatDocument completed on a document with tags and a correspondent
\* before initialize() was called, on a service that holds metadata.
C17_Witness ==
    /\ NeverLoaded
    /\ proc = "start"
    /\ remote.tags # <<>>
    /\ probe.op = "formatDocument"
    /\ probe.input.doc = [tags |-> Arr(<<Num(2), Num(1)>>), correspondent |-> Num(1),
                          document_type |-> Num(1)]
    /\ ~probe.output.threw

\* The list-ID lookup returned the empty array before any load.
C17_WitnessList ==
    /\ NeverLoaded
    /\ probe.op = "getTagsByIds"
    /\ probe.output.value = Arr(<<>>)

----------------------------------------------------------------------------
(* Logger levels *)

DocumentedLevels == {Undefined, Str(LevelZero), Str(LevelOne), Str(LevelTwo)}

\* The level the README gives a setting: 1 when LOGGER_LEVEL is unset.
DocumentedLevel ==
    CASE loggerLevel = Str(LevelZero) -> 0
      [] loggerLevel = Str(LevelTwo) -> 2
      [] OTHER -> 1

\* C19 (as claimed): under a documented setting of LOGGER_LEVEL, ERROR is always written,
\* INFO exactly at levels 1 and 2, DEBUG exactly at level 2, and an unset
\* LOGGER_LEVEL counts as level 1.
C19_LoggerFollowsDocumentedLevels ==
    (probe.op \in LoggerMethods /\ loggerLevel \in DocumentedLevels) =>
        /\ probe.op = "error" => probe.output.written
        /\ probe.op = "info" => (probe.output.written <=> DocumentedLevel \in {1, 2})
        /\ probe.op = "debug" => (probe.output.written <=> DocumentedLevel = 2)

\* With LOGGER_LEVEL unset, debug() wrote its line.
C19_DebugWrittenWhenUnset ==
    /\ probe.op = "debug"
    /\ loggerLevel = Undefined
    /\ probe.output.written


----------------------------------------------------------------------------
(* Specification ConcSpec: the same bridge with a client that does not     *)
(* wait for an answer before it sends its next call, so that a call's      *)
(* lookups and another call's refresh interleave at the awaits.            *)

ConcurrentCalls ==
    {<<"create_tag", [NoArgs EXCEPT !.name = Str(NameLowerA)]>>,
     <<"create_correspondent", [NoArgs EXCEPT !.name = Str(NameB)]>>,
     <<"edit_documents", [EditBase("modify_tags") EXCEPT
                             !.add_tags = Arr(<<Str(NameB), Str(NamePaddedA)>>)]>>}

\* A call arrives whether or not another one is in flight.
DeliverConcurrently ==
    /\ proc = "serving"
    /\ \E c \in CallIds, call \in ConcurrentCalls : CallTool(c, call[1], call[2])

NextConc ==
    \/ Construct
    \/ \E r \in RemoteOutcomes : ConnectionTested(r)
    \/ \E k \in Kinds, r \in RemoteOutcomes : LoadSettled(k, r)
    \/ ConnectTransport
    \/ DeliverConcurrently
    \/ \E c \in CallIds, r \in RemoteOutcomes : ApiResponse(c, r)
    \/ \E c \in CallIds, r \in RemoteOutcomes : RefreshResponse(c, r)
    \/ \E c \in CallIds : Respond(c)

ConcSpec == Init /\ [][NextConc]_vars

\* The non-empty listing responses the loads of a kind have received.
Snapshots(k) == listings[k] \ {<<>>}

\* C20: in every state, and so wherever a lookup can run, also while
\* initialize() or another call's refresh is in progress, the mapping of each
\* kind is empty with no non-empty listing received, or holds exactly the
\* entities of one listing response.
C20_MappingIsOneListing ==
    \A k \in Kinds :
        \/ cache[k] = <<>> /\ Snapshots(k) = {}
        \/ \E listing \in Snapshots(k) :
              /\ Len(cache[k]) = Len(listing)
              /\ \A i \in 1..Len(listing) : cache[k][i] = listing[i]

\* A call is awaiting its request while another call's refresh has replaced
\* the tags, which had been loaded before, by a second listing.
C20_Witness ==
    /\ Cardinality(Snapshots("tags")) >= 2
    /\ \E c, d \in CallIds :
          /\ c # d
          /\ calls[c].tool = "create_tag"
          /\ Done(c)
          /\ calls[c].outcome = "returned"
          /\ calls[d].pc = "awaitApi"
    /\ Len(cache.tags) = 2


----------------------------------------------------------------------------
(* Specification ExternalSpec: the serial client, with another client of   *)
(* the Paperless service deleting metadata meanwhile.                      *)

\* Another client deletes one entity of a kind.
RemoteDeleted(k) ==
    /\ proc # "exited"
    /\ \E i \in 1..Len(remote[k]) :
          remote' = [remote EXCEPT ![k] =
                        SubSeq(remote[k], 1, i - 1) \o SubSeq(remote[k], i + 1, Len(remote[k]))]
    /\ UNCHANGED <<configOk, loggerLevel, probe, paperlessConnected, listings, proc,
                   exitCode, loads, cache, lastUpdated, creates, calls>>

\* The client sends its next call, one that refreshes or reads the cache,
\* once the previous call was answered.
DeliverMetadataCall ==
    /\ NoCallInFlight
    /\ \E c \in CallIds, call \in ConcurrentCalls : DeliverCall(c, call[1], call[2])

NextExternal ==
    \/ Construct
    \/ \E r \in RemoteOutcomes : ConnectionTested(r)
    \/ \E k \in Kinds, r \in RemoteOutcomes : LoadSettled(k, r)
    \/ ConnectTransport
    \/ DeliverMetadataCall
    \/ \E c \in CallIds, r \in RemoteOutcomes : ApiResponse(c, r)
    \/ \E c \in CallIds, r \in RemoteOutcomes : RefreshResponse(c, r)
    \/ \E c \in CallIds : Respond(c)
    \/ \E k \in Kinds : RemoteDeleted(k)

ExternalSpec == Init /\ [][NextExternal]_vars

\* A create call whose refresh has just completed successfully.
Refreshed(call) ==
    /\ call.pc = "done"
    /\ call.tool \in CreateTools
    /\ Len(call.reqs) = 2
    /\ call.reqs[2].status = "ok"

\* C21 (as claimed): when the refresh of a kind has completed successfully,
\* the kind's mapping holds exactly the entities of the fetched listing, also
\* when that listing is empty.
C21_RefreshInstallsFetchedListing ==
    \A c \in CallIds :
        Refreshed(calls[c]) => cache[KindOf(calls[c].tool)] = calls[c].listing

\* A refresh fetched the empty listing and the tag it had cached before is
\* still resolvable.
C21_EmptyListingKeepsMapping ==
    \E c \in CallIds :
        /\ Refreshed(calls[c])
        /\ calls[c].tool = "create_tag"
        /\ calls[c].listing = <<>>
        /\ getTagIDByName(cache, NameA) = Num(1)


----------------------------------------------------------------------------
(* Frame of a refresh *)

\* The refresh of call c ends in this step.
RefreshEnds(c) == calls[c].pc = "awaitRefresh" /\ calls'[c].pc = "done"

\* C22: the step in which the refresh of a kind ends, successfully or not,
\* leaves the mappings of the other two kinds as they were, and when the
\* fetch failed it leaves the mapping of the kind itself as it was.
C22_RefreshTouchesOnlyItsKind ==
    [][\A c \in CallIds :
          RefreshEnds(c) =>
              /\ \A j \in Kinds \ {KindOf(calls[c].tool)} : cache'[j] = cache[j]
              /\ calls'[c].reqs[2].status # "ok"
                     => cache'[KindOf(calls[c].tool)] = cache[KindOf(calls[c].tool)]]_vars

\* The re-fetch of the tags failed: the tag mapping is still the one loaded
\* before, the other mappings are loaded as well.
C22_Witness ==
    \E c \in CallIds :
        /\ Done(c)
        /\ calls[c].tool = "create_tag"
        /\ Len(calls[c].reqs) = 2
        /\ calls[c].reqs[2].status = "network_error"
        /\ cache.tags = <<Entity(1, NameA)>>
        /\ cache.correspondents # <<>>
        /\ Len(remote.tags) = 2


----------------------------------------------------------------------------
(* modify_tags with nothing to modify *)

\* C23 (as claimed): every bulk-edit request with method modify_tags carries
\* a non-empty add_tags or a non-empty remove_tags list of IDs.
C23_ModifyTagsRequestNotEmpty ==
    \A c \in CallIds :
        \A i \in BulkEditsOf(calls[c]) :
            calls[c].reqs[i].body.method = Str(<<"modify_tags">>) =>
                \/ calls[c].reqs[i].body.parameters.add_tags.l # <<>>
                \/ calls[c].reqs[i].body.parameters.remove_tags.l # <<>>

\* A modify_tags call whose only name is unknown to the cache was posted
\* with both lists empty.
C23_EmptyModifyTagsPosted ==
    \E c \in CallIds :
        /\ IsModifyTags(c)
        /\ calls[c].args.remove_tags = Arr(<<Str(NameC)>>)
        /\ calls[c].reqs[1].url = BulkEditUrl
        /\ calls[c].reqs[1].body.parameters.add_tags = Arr(<<>>)
        /\ calls[c].reqs[1].body.parameters.remove_tags = Arr(<<>>)


----------------------------------------------------------------------------
(* lastUpdated *)

AllLoadsOk == \A k \in Kinds : loads[k] = "ok"

\* C24: lastUpdated is null until an initialize() has completed with its
\* three fetches successful, and it changes in no other step: not when a
\* refresh ends, not when initialize() fails, not in a call that looks up
\* names.
C24_LastUpdatedOnlyOnFullLoad ==
    /\ [](lastUpdated = "null" <=> ~AllLoadsOk)
    /\ [][lastUpdated' # lastUpdated =>
             /\ proc = "initializing"
             /\ proc' = "initialized"
             /\ \A k \in Kinds : loads'[k] = "ok"]_vars

\* A refresh has completed after the full load, and lastUpdated is the date
\* of the full load.
C24_Witness ==
    /\ lastUpdated = "date"
    /\ \E c \in CallIds : Refreshed(calls[c])

\* initialize() failed after one load had succeeded: lastUpdated is null.
C24_WitnessFailed ==
    /\ lastUpdated = "null"
    /\ proc = "exited"
    /\ \E k \in Kinds : loads[k] = "ok"
    /\ \E k \in Kinds : loads[k] = "failed"


----------------------------------------------------------------------------
(* Name lookups among entities of one normalised name *)

\* The positions in a listing of the entities whose name equals the given
\* name once both are trimmed and lower-cased.
ListedMatches(listing, name) ==
    {j \in 1..Len(listing) : Normal(listing[j].name) = Normal(name)}

\* C25: when two or more cached entities of a kind have the looked-up name
\* after normalisation, the mapping is in the order of the listing response
\* that loaded it and the lookup returns the ID of the entity that this
\* listing names first among them; the value depends on the mapping and the
\* name only, so a repeated lookup returns it again.
C25_FirstListedMatchWins ==
    (/\ probe.op \in IDByNameMethods
     /\ Cardinality(NameMatches(probe.input.kind, probe.input.arg.s)) >= 2) =>
        \E listing \in listings[probe.input.kind] :
            /\ cache[probe.input.kind] = listing
            /\ LET matches == ListedMatches(listing, probe.input.arg.s)
               IN  \E j \in matches :
                       /\ \A i \in matches : j <= i
                       /\ probe.output.value = Num(listing[j].id)

\* The listing named "A" (ID 3) before "a" (ID 1): the lookup of " a "
\* returned 3.
C25_Witness ==
    /\ probe.op = "getTagIDByName"
    /\ cache.tags = <<Entity(3, NameA), Entity(1, NameLowerA), Entity(2, NameB)>>
    /\ probe.input.arg = Str(NamePaddedA)
    /\ probe.output.value = Num(3)


----------------------------------------------------------------------------
(* get_documents: each filter parameter and its argument *)

\* The remote query parameter of each get_documents argument.
ParameterOf ==
    [id |-> "id",
     content__icontains |-> "content__icontains",
     title |-> "title__icontains",
     tag |-> "tags__name__icontains",
     correspondent |-> "correspondent__name__icontains",
     created__date__gte |-> "created__date__gte",
     created__date__lte |-> "created__date__lte",
     document_type |-> "document_type__name__icontains"]

FilterArguments == DOMAIN ParameterOf

\* The parameter is in the request (a key that was not set is undefined).
Sent(q, parameter) == q.body[parameter] # Undefined

\* C26: a filter parameter is in the outgoing get_documents request only if
\* its argument was supplied, it then has exactly the supplied value, and it
\* is never null nor the empty string.
C26_ParameterOnlyWithItsArgument ==
    \A c \in CallIds :
        IsDocumentQuery(c) =>
            \A q \in DocumentQueries(c), f \in FilterArguments :
                Sent(q, ParameterOf[f]) =>
                    /\ calls[c].args[f] # Undefined
                    /\ q.body[ParameterOf[f]] = calls[c].args[f]
                    /\ q.body[ParameterOf[f]] \notin {Null, Str(<<>>)}

\* document_type was supplied empty and title "A": the request holds
\* title__icontains = "A", no document_type parameter and no tag parameter.
C26_Witness ==
    \E c \in CallIds :
        /\ IsDocumentQuery(c)
        /\ calls[c].args.document_type = Str(<<>>)
        /\ calls[c].args.title = Str(NameA)
        /\ calls[c].args.tag = Undefined
        /\ \E q \in DocumentQueries(c) :
              /\ q.body.title__icontains = Str(NameA)
              /\ ~Sent(q, "document_type__name__icontains")
              /\ ~Sent(q, "tags__name__icontains")

\* C28 (as claimed): every get_documents request that is sent has a filter
\* parameter besides page_size.
C28_QueryIsFiltered ==
    \A c \in CallIds :
        IsDocumentQuery(c) =>
            \A q \in DocumentQueries(c) :
                \E f \in FilterArguments : Sent(q, ParameterOf[f])

\* The arguments {tag: ""} passed validation and a request with page_size
\* alone was sent.
C28_UnfilteredQuerySent ==
    \E c \in CallIds :
        /\ IsDocumentQuery(c)
        /\ calls[c].validated
        /\ calls[c].args.tag = Str(<<>>)
        /\ \E q \in DocumentQueries(c) :
              \A f \in FilterArguments : ~Sent(q, ParameterOf[f])


----------------------------------------------------------------------------
(* create_*: the re-fetch after a create that failed *)

\* The call's create request was sent and has failed.
CreateFailed(call) ==
    /\ call.tool \in CreateTools
    /\ Len(call.reqs) >= 1
    /\ call.reqs[1].verb = "POST"
    /\ call.reqs[1].status \notin {"pending", "ok"}

\* C29 (as claimed): a create call whose create request failed issues no
\* listing re-fetch; only the create request is among its requests.
C29_FailedCreateIssuesNoRefetch ==
    \A c \in CallIds : CreateFailed(calls[c]) => Len(calls[c].reqs) = 1

\* The create request of a call failed, the listing was fetched all the same
\* and installed: the mapping holds an entity that an earlier create had
\* added and whose own re-fetch had failed.
C29_RefetchAfterFailedCreate ==
    \E c \in CallIds :
        /\ CreateFailed(calls[c])
        /\ Done(c)
        /\ Len(calls[c].reqs) = 2
        /\ calls[c].reqs[2].verb = "GET"
        /\ calls[c].reqs[2].status = "ok"
        /\ cache[KindOf(calls[c].tool)] = remote[KindOf(calls[c].tool)]
        /\ Len(cache[KindOf(calls[c].tool)]) = 2


----------------------------------------------------------------------------
(* Specification: a session in which every remote request succeeds.  The    *)
(* transport delivers the calls one at a time, and the remote metadata      *)
(* changes through the create tools only.                                   *)

NextSucceeding ==
    \/ Construct
    \/ ConnectionTested("ok")
    \/ \E k \in Kinds : LoadSettled(k, "ok")
    \/ ConnectTransport
    \/ \E c \in CallIds, tool \in DeclaredTools \cup UnknownTools :
          \E a \in ArgsOf(tool) : DeliverCall(c, tool, a)
    \/ \E c \in CallIds : ApiResponse(c, "ok")
    \/ \E c \in CallIds : RefreshResponse(c, "ok")
    \/ \E c \in CallIds : Respond(c)

SucceedingSpec == Init /\ [][NextSucceeding]_vars

\* No tool call is between its delivery and its return.
AllCallsReturned == \A c \in CallIds : calls[c].pc \in {"idle", "done"}

\* C27: in a session whose remote requests all succeed and whose remote
\* metadata changes through the create tools only, from the end of
\* initialize() on, whenever the tool calls have returned, the mapping of
\* each kind holds exactly the remote service's current entities of the
\* kind, IDs and names.
C27_CacheIsRemoteAfterCalls ==
    (lastUpdated = "date" /\ AllCallsReturned) =>
        \A k \in Kinds : cache[k] = remote[k]

\* The second create call of the session has returned, and the mappings hold
\* the two created entities: a tag and a correspondent.
C27_Witness ==
    /\ lastUpdated = "date"
    /\ creates = 2
    /\ \E c \in CallIds : Done(c) /\ calls[c].tool = "create_correspondent"
    /\ \A k \in Kinds : cache[k] = remote[k]
    /\ 2 \in MapKeys(cache.tags)
    /\ 3 \in MapKeys(cache.correspondents)


----------------------------------------------------------------------------
(* Specification RaceSpec: overlapping calls, with the moment the remote    *)
(* service answers a listing request apart from the moment the response     *)
(* arrives, so that the responses to two fetches can arrive in either       *)
(* order.                                                                   *)

NextRace ==
    \/ Construct
    \/ \E r \in RemoteOutcomes : ConnectionTested(r)
    \/ \E k \in Kinds, r \in RemoteOutcomes : LoadSettled(k, r)
    \/ ConnectTransport
    \/ DeliverConcurrently
    \/ \E c \in CallIds, r \in RemoteOutcomes : ApiResponse(c, r)
    \/ \E c \in CallIds : RefreshServed(c)
    \/ \E c \in CallIds, r \in RemoteOutcomes : RefreshResponse(c, r)
    \/ \E c \in CallIds : Respond(c)

RaceSpec == Init /\ [][NextRace]_vars

\* Both calls created an entity of one kind and re-fetched its listing, and
\* the fetch of the second was issued after the fetch of the first: a call
\* issues its fetch when the response to its create arrives, and the remote
\* service gave the second call's entity the larger ID.
FetchedInOrder(c, d) ==
    /\ c # d
    /\ CreatedAndRefreshed(calls[c])
    /\ CreatedAndRefreshed(calls[d])
    /\ KindOf(calls[c].tool) = KindOf(calls[d].tool)
    /\ calls[c].result.text.id < calls[d].result.text.id

\* C30 (as claimed): once two calls that refresh the same kind have both
\* completed, the kind's mapping is the listing of the fetch issued last.
C30_LastIssuedFetchWins ==
    \A c, d \in CallIds :
        FetchedInOrder(c, d) => cache[KindOf(calls[d].tool)] = calls[d].listing

\* Two create_tag calls have completed; the listing of the fetch issued last
\* holds both new tags, and the mapping is the listing of the earlier fetch,
\* without the second tag.
C30_OlderListingInstalled ==
    \E c, d \in CallIds :
        /\ FetchedInOrder(c, d)
        /\ calls[d].listing = remote.tags
        /\ cache.tags = calls[c].listing
        /\ calls[d].result.text.id \notin MapKeys(cache.tags)

====
